---------------------------- MODULE Spec2Model ----------------------------
(***************************************************************************)
(* State-machine model of the poem-sharing node of src/src/main.rs:        *)
(* the menu task (menu_loop, handle_create, handle_join), the session      *)
(* tasks it spawns (poem_loop), and the environment they talk to (the      *)
(* user at the prompt, the document engine's live-event stream, the blob   *)
(* store).                                                                 *)
(*                                                                         *)
(* Strings and byte strings are sequences of tokens (one token per         *)
(* character or byte, "doc" being the ticket kind prefix).                 *)
(*                                                                         *)
(* Calls into the prompt, the document engine and the blob store return    *)
(* Ok, except the two whose Err the code itself turns into a panic on user *)
(* or peer data: DocTicket::from_str and String::from_utf8; read_to_bytes  *)
(* returns Err while the content is not in the local store.  A panic of    *)
(* the menu task ends the process (main awaits it); a panic of a session   *)
(* task ends that task only.                                               *)
(*                                                                         *)
(* The document log that set_bytes and import reach (merge and list of the *)
(* replicated log) has no source in src/; it is modelled at the end of the *)
(* module from its description, as two replicas that receive the same      *)
(* broadcasts, under its own specification MergeSpec.                      *)
(***************************************************************************)
EXTENDS Integers, Sequences, FiniteSets, TLC

VARIABLES
    menuPc,       \* position of the menu task (menu_loop and the handler it awaits)
    join_ticket,  \* handle_join: the trimmed string typed at the "Ticket:" prompt
    ticket,       \* the DocTicket held by the running handler
    poem_doc,     \* the document handle of the running handler (a document id)
    docs,         \* documents imported into the node (node.docs)
    writes,       \* the set_bytes calls made, in order
    blobs,        \* content hashes readable from the local blob store
    stdout,       \* lines printed by println!, in order
    sess,         \* the spawned poem_loop tasks, in spawn order
    events        \* every live event put on a subscription, in delivery order, each
                  \* with its history: read_to_bytes calls made for it (fetches),
                  \* seconds slept for it (waited), lines printed for it (notes, the
                  \* last at stdout[line]) and how its handling ended (result)

\* the replicated document log (used by MergeSpec only)
VARIABLES
    sent,         \* the log entries broadcast so far
    inbox,        \* per replica: the broadcast entries it has still to receive
    replica,      \* per replica: its live entries
    last          \* per replica: the entry it merged last (<<>> before the first)

progVars == <<menuPc, join_ticket, ticket, poem_doc, docs, writes, blobs, stdout, sess, events>>
logVars == <<sent, inbox, replica, last>>
vars == <<progVars, logVars>>

----------------------------------------------------------------------------
(* Bounds of the model *)

MaxEvents == 2     \* live events the environment delivers
MaxTyped == 2      \* inputs the user types: unknown commands and poem lines
MaxSessions == 2   \* session tasks the scheduler's fairness is stated for
MaxEntries == 3    \* log entries broadcast to the replicas

(* Program constants *)

Retries == 3       \* for _ in 0..3
BackoffSecs == 1   \* Duration::from_secs(1)

----------------------------------------------------------------------------
(* Values *)

NoTicket == [doc |-> "", peers |-> <<>>]
Invalid == [doc |-> "InvalidFormat", peers |-> <<>>]

DocIds == {"d1", "d2"}
Minted == {"d1"}     \* ids a new document can get
SelfAddr == "p0"
PeerAddrs == {"p0", "p1"}

\* 32-byte public keys, as <<first five bytes, rest>>
SelfAuthor == <<"aa", "00">>
Authors == {<<"bb", "01">>}
Peers == {<<"cc", "07">>}
NoId == <<"", "">>

\* fmt_short(): the first five bytes of a key, in hex
fmt_short(id) == id[1]

PoemTicketKey == <<"poem-ticket">>

\* Readings of Utc::now().timestamp_micros(): the wall clock may repeat a
\* reading and may step backwards
ClockReadings == {9, 10}

\* Lines the user can type (strings of characters)
Lines == {<<"h", "eacute">>}

\* Payloads of remote entries (byte strings); xFF is no UTF-8
RemotePayloads == {<<"h", "xC3", "xA9">>, <<"xFF">>}
RemoteKeys == {<<"7">>}

\* Live events that are no insert (membership, sync, content events): the
\* code has one branch for all of them
OtherKinds == {"NeighborUp"}

----------------------------------------------------------------------------
(* Pure functions *)

Digit(d) == <<"0", "1", "2", "3", "4", "5", "6", "7", "8", "9">>[d + 1]

\* i64::to_string of a non-negative number
RECURSIVE to_string(_)
to_string(n) == IF n < 10 THEN <<Digit(n)>> ELSE Append(to_string(n \div 10), Digit(n % 10))

\* str::trim: leading and trailing whitespace removed
RECURSIVE TrimStart(_)
TrimStart(s) == IF s # <<>> /\ Head(s) = " " THEN TrimStart(Tail(s)) ELSE s

RECURSIVE TrimEnd(_)
TrimEnd(s) == IF s # <<>> /\ s[Len(s)] = " " THEN TrimEnd(SubSeq(s, 1, Len(s) - 1)) ELSE s

trim(s) == TrimEnd(TrimStart(s))

\* Display of a DocTicket: the kind prefix, then the serialized fields
ticket_to_string(t) == <<"doc", t.doc>> \o t.peers

\* DocTicket::from_str: the prefix and every field must parse
from_str(s) ==
    IF /\ Len(s) >= 2
       /\ s[1] = "doc"
       /\ s[2] \in DocIds
       /\ \A i \in 3..Len(s) : s[i] \in PeerAddrs
    THEN [doc |-> s[2], peers |-> SubSeq(s, 3, Len(s))]
    ELSE Invalid

\* UTF-8: single bytes below 0x80, two-byte sequences lead + continuation
Lead2 == {"xC3"}
Cont == {"xA9"}
NonAscii == Lead2 \cup Cont \cup {"xFF"}

RECURSIVE utf8_valid(_)
utf8_valid(b) ==
    IF b = <<>> THEN TRUE
    ELSE IF Head(b) \notin NonAscii THEN utf8_valid(Tail(b))
    ELSE IF Head(b) \in Lead2 /\ Len(b) >= 2 /\ b[2] \in Cont
         THEN utf8_valid(SubSeq(b, 3, Len(b)))
    ELSE FALSE

\* the character a two-byte sequence encodes
Char2(lead, cont) == IF lead = "xC3" /\ cont = "xA9" THEN "eacute" ELSE "?"

\* String::from_utf8 on valid bytes
RECURSIVE utf8_decode(_)
utf8_decode(b) ==
    IF b = <<>> THEN <<>>
    ELSE IF Head(b) \in Lead2
         THEN <<Char2(b[1], b[2])>> \o utf8_decode(SubSeq(b, 3, Len(b)))
    ELSE <<Head(b)>> \o utf8_decode(Tail(b))

\* the bytes of a String
RECURSIVE utf8_encode(_)
utf8_encode(s) ==
    IF s = <<>> THEN <<>>
    ELSE IF Head(s) = "eacute" THEN <<"xC3", "xA9">> \o utf8_encode(Tail(s))
    ELSE <<Head(s)>> \o utf8_encode(Tail(s))

\* the content hash of a payload (collision-free digest)
content_hash(b) == <<"blake3">> \o b

RemoteEntries ==
    {[author |-> a, key |-> k, hash |-> content_hash(p)] :
        a \in Authors, k \in RemoteKeys, p \in RemotePayloads}
NoEntry == [author |-> NoId, key |-> <<>>, hash |-> <<>>]

\* Result<Bytes> of blobs.read_to_bytes(hash)
Err == [ok |-> FALSE, bytes |-> <<>>]
read_to_bytes(h) == IF h \in blobs THEN [ok |-> TRUE, bytes |-> Tail(h)] ELSE Err

\* Strings typed at the "Ticket:" prompt
TicketInputs ==
    {ticket_to_string([doc |-> "d2", peers |-> <<"p1">>]),
     <<" ">> \o ticket_to_string([doc |-> "d2", peers |-> <<"p1">>]) \o <<" ">>,
     <<"garbage">>,
     <<"doc", "zz">>,
     <<" ">>}

----------------------------------------------------------------------------
(* State helpers *)

\* the two replicas of one document
Replicas == {"A", "B"}

NewSession(d) ==
    [doc |-> d, pc |-> "start", subscribed |-> FALSE, closed |-> FALSE,
     sub |-> <<>>, cur |-> 0, message_content |-> Err, i |-> 0]

Halted == menuPc = "panicked"

Running(s) == sess[s].pc \notin {"done", "panicked"}

\* the subscription of session s takes events
Listening(s) == Running(s) /\ sess[s].subscribed /\ ~sess[s].closed

UserLines == {n \in DOMAIN writes : writes[n].key # PoemTicketKey}
InvalidTyped == {n \in DOMAIN stdout : stdout[n].kind = "invalid"}
Typed == Cardinality(UserLines) + Cardinality(InvalidTyped)
Delivered == {id \in DOMAIN events : events[id].kind # "InsertLocal"}

NewEvent(s, kind, from, entry) ==
    [sess |-> s, kind |-> kind, from |-> from, entry |-> entry,
     fetches |-> 0, waited |-> 0, notes |-> 0, line |-> 0, result |-> "none"]

\* sessions listening on document d, in spawn order
Listeners(d) ==
    LET all == [n \in 1..Len(sess) |-> n]
        hears(n) == Listening(n) /\ sess[n].doc = d
    IN SelectSeq(all, hears)

Init ==
    /\ menuPc = "prompt"
    /\ join_ticket = <<>>
    /\ ticket = NoTicket
    /\ poem_doc = ""
    /\ docs = {}
    /\ writes = <<>>
    /\ blobs = {}
    /\ stdout = <<>>
    /\ sess = <<>>
    /\ events = <<>>
    /\ sent = {}
    /\ inbox = [r \in Replicas |-> {}]
    /\ replica = [r \in Replicas |-> {}]
    /\ last = [r \in Replicas |-> <<>>]

----------------------------------------------------------------------------
(* Document engine: doc.set_bytes(author, key, value) *)

\* The payload goes to the blob store, the entry is recorded, and every
\* listening subscription of the document gets an InsertLocal event.
set_bytes(d, author, key, value) ==
    LET L == Listeners(d)
        n == Len(events)
        entry == [author |-> author, key |-> key, hash |-> content_hash(value)]
        pos(s) == CHOOSE k \in 1..Len(L) : L[k] = s
    IN /\ writes' = Append(writes, [doc |-> d, author |-> author, key |-> key, value |-> value])
       /\ blobs' = blobs \cup {content_hash(value)}
       /\ IF L = <<>>
          THEN UNCHANGED <<events, sess>>
          ELSE /\ events' = events \o [k \in 1..Len(L) |-> NewEvent(L[k], "InsertLocal", NoId, entry)]
               /\ sess' = [s \in 1..Len(sess) |->
                             IF \E k \in 1..Len(L) : L[k] = s
                             THEN [sess[s] EXCEPT !.sub = Append(@, n + pos(s))]
                             ELSE sess[s]]

----------------------------------------------------------------------------
(* menu_loop *)

\* "create" typed at the command prompt
MenuCreate ==
    /\ menuPc = "prompt"
    /\ menuPc' = "create_share"
    /\ UNCHANGED <<join_ticket, ticket, poem_doc, docs, writes, blobs, stdout, sess, events, logVars>>

\* "join" typed at the command prompt
MenuJoin ==
    /\ menuPc = "prompt"
    /\ menuPc' = "join_prompt"
    /\ UNCHANGED <<join_ticket, ticket, poem_doc, docs, writes, blobs, stdout, sess, events, logVars>>

InvalidMsg == [kind |-> "invalid", who |-> "", text |-> <<"Invalid command. Please enter 'create' or 'join'.">>]

\* anything else typed at the command prompt
MenuInvalid ==
    /\ menuPc = "prompt"
    /\ Typed < MaxTyped
    /\ stdout' = Append(stdout, InvalidMsg)
    /\ UNCHANGED <<menuPc, join_ticket, ticket, poem_doc, docs, writes, blobs, sess, events, logVars>>

----------------------------------------------------------------------------
(* handle_create *)

\* new document, shared as a ticket
CreateShare ==
    /\ menuPc = "create_share"
    /\ \E d \in Minted : ticket' = [doc |-> d, peers |-> <<SelfAddr>>]
    /\ menuPc' = "create_print"
    /\ UNCHANGED <<join_ticket, poem_doc, docs, writes, blobs, stdout, sess, events, logVars>>

\* println!("Share this ticket with peers: {}", ticket)
CreatePrint ==
    /\ menuPc = "create_print"
    /\ stdout' = Append(stdout, [kind |-> "ticket", who |-> "", text |-> ticket_to_string(ticket)])
    /\ menuPc' = "create_import"
    /\ UNCHANGED <<join_ticket, ticket, poem_doc, docs, writes, blobs, sess, events, logVars>>

\* node.docs.import(ticket.clone())
CreateImport ==
    /\ menuPc = "create_import"
    /\ docs' = docs \cup {ticket.doc}
    /\ poem_doc' = ticket.doc
    /\ menuPc' = "create_set"
    /\ UNCHANGED <<join_ticket, ticket, writes, blobs, stdout, sess, events, logVars>>

\* CreateSetTicket that writes the document id in place of the ticket
CreateSetDocId ==
    /\ menuPc = "create_set"
    /\ set_bytes(poem_doc, SelfAuthor, PoemTicketKey, utf8_encode(<<"doc", ticket.doc>>))
    /\ menuPc' = "create_spawn"
    /\ UNCHANGED <<join_ticket, ticket, poem_doc, docs, stdout, logVars>>

\* poem_doc.set_bytes(author, "poem-ticket", ticket.to_string())
CreateSetTicket ==
    /\ menuPc = "create_set"
    /\ set_bytes(poem_doc, SelfAuthor, PoemTicketKey, utf8_encode(ticket_to_string(ticket)))
    /\ menuPc' = "create_spawn"
    /\ UNCHANGED <<join_ticket, ticket, poem_doc, docs, stdout, logVars>>

\* tokio::spawn(poem_loop(poem_doc.clone(), node.clone()))
CreateSpawn ==
    /\ menuPc = "create_spawn"
    /\ sess' = Append(sess, NewSession(poem_doc))
    /\ menuPc' = "create_lines"
    /\ UNCHANGED <<join_ticket, ticket, poem_doc, docs, writes, blobs, stdout, events, logVars>>

\* one turn of the loop: a line is read, the clock is read, the entry is set
CreateLine ==
    /\ menuPc = "create_lines"
    /\ Typed < MaxTyped
    /\ \E line \in Lines, now \in ClockReadings :
          set_bytes(poem_doc, SelfAuthor, to_string(now), utf8_encode(line))
    /\ UNCHANGED <<menuPc, join_ticket, ticket, poem_doc, docs, stdout, logVars>>

----------------------------------------------------------------------------
(* handle_join *)

\* the ticket prompt: the typed string, trimmed
JoinPrompt ==
    /\ menuPc = "join_prompt"
    /\ \E typed \in TicketInputs : join_ticket' = trim(typed)
    /\ menuPc' = "join_parse"
    /\ UNCHANGED <<ticket, poem_doc, docs, writes, blobs, stdout, sess, events, logVars>>

\* JoinParse that goes on with whatever the parse gave (no expect)
JoinParseUnchecked ==
    /\ menuPc = "join_parse"
    /\ menuPc' = "join_import"
    /\ ticket' = from_str(join_ticket)
    /\ UNCHANGED <<join_ticket, poem_doc, docs, writes, blobs, stdout, sess, events, logVars>>

\* DocTicket::from_str(&join_ticket).expect("Invalid ticket format")
JoinParse ==
    /\ menuPc = "join_parse"
    /\ IF from_str(join_ticket) = Invalid
       THEN menuPc' = "panicked" /\ UNCHANGED ticket
       ELSE menuPc' = "join_import" /\ ticket' = from_str(join_ticket)
    /\ UNCHANGED <<join_ticket, poem_doc, docs, writes, blobs, stdout, sess, events, logVars>>

\* node.docs.import(doc_ticket)
JoinImport ==
    /\ menuPc = "join_import"
    /\ docs' = docs \cup {ticket.doc}
    /\ poem_doc' = ticket.doc
    /\ menuPc' = "join_spawn"
    /\ UNCHANGED <<join_ticket, ticket, writes, blobs, stdout, sess, events, logVars>>

\* tokio::spawn(poem_loop(poem_doc.clone(), node.clone()))
JoinSpawn ==
    /\ menuPc = "join_spawn"
    /\ sess' = Append(sess, NewSession(poem_doc))
    /\ menuPc' = "join_lines"
    /\ UNCHANGED <<join_ticket, ticket, poem_doc, docs, writes, blobs, stdout, events, logVars>>

\* one turn of the loop: a line is read, the clock is read, the entry is set
JoinLine ==
    /\ menuPc = "join_lines"
    /\ Typed < MaxTyped
    /\ \E line \in Lines, now \in ClockReadings :
          set_bytes(poem_doc, SelfAuthor, to_string(now), utf8_encode(line))
    /\ UNCHANGED <<menuPc, join_ticket, ticket, poem_doc, docs, stdout, logVars>>

----------------------------------------------------------------------------
(* poem_loop, as session task s *)

\* let mut sub = poem_doc.subscribe().await.unwrap()
SessSubscribe(s) ==
    /\ ~Halted
    /\ sess[s].pc = "start"
    /\ sess' = [sess EXCEPT ![s].pc = "next", ![s].subscribed = TRUE]
    /\ UNCHANGED <<menuPc, join_ticket, ticket, poem_doc, docs, writes, blobs, stdout, events, logVars>>

\* SessNextRemote that takes the newest event of the subscription
SessNextNewest(s) ==
    LET q == sess[s].sub IN
    /\ ~Halted
    /\ sess[s].pc = "next"
    /\ q # <<>>
    /\ events[q[Len(q)]].kind = "InsertRemote"
    /\ sess' = [sess EXCEPT ![s].pc = "read", ![s].cur = q[Len(q)],
                            ![s].sub = SubSeq(q, 1, Len(q) - 1)]
    /\ UNCHANGED <<menuPc, join_ticket, ticket, poem_doc, docs, writes, blobs, stdout, events, logVars>>

\* SessNextRemote with a pattern that takes local inserts too
SessNextAnyInsert(s) ==
    /\ ~Halted
    /\ sess[s].pc = "next"
    /\ sess[s].sub # <<>>
    /\ events[Head(sess[s].sub)].kind \in {"InsertRemote", "InsertLocal"}
    /\ sess' = [sess EXCEPT ![s].pc = "read", ![s].cur = Head(sess[s].sub),
                            ![s].sub = Tail(sess[s].sub)]
    /\ UNCHANGED <<menuPc, join_ticket, ticket, poem_doc, docs, writes, blobs, stdout, events, logVars>>

\* sub.try_next() yields Ok(Some(InsertRemote {from, entry, ..})): the loop body runs
SessNextRemote(s) ==
    /\ ~Halted
    /\ sess[s].pc = "next"
    /\ sess[s].sub # <<>>
    /\ events[Head(sess[s].sub)].kind = "InsertRemote"
    /\ sess' = [sess EXCEPT ![s].pc = "read", ![s].cur = Head(sess[s].sub),
                            ![s].sub = Tail(sess[s].sub)]
    /\ UNCHANGED <<menuPc, join_ticket, ticket, poem_doc, docs, writes, blobs, stdout, events, logVars>>

\* sub.try_next() yields any other item (another event kind, an Err): the
\* while-let pattern fails, the loop ends
SessNextOther(s) ==
    /\ ~Halted
    /\ sess[s].pc = "next"
    /\ sess[s].sub # <<>>
    /\ events[Head(sess[s].sub)].kind # "InsertRemote"
    /\ sess' = [sess EXCEPT ![s].pc = "done", ![s].sub = Tail(sess[s].sub)]
    /\ UNCHANGED <<menuPc, join_ticket, ticket, poem_doc, docs, writes, blobs, stdout, events, logVars>>

\* sub.try_next() yields Ok(None), the stream has ended: the loop ends
SessNextClosed(s) ==
    /\ ~Halted
    /\ sess[s].pc = "next"
    /\ sess[s].sub = <<>>
    /\ sess[s].closed
    /\ sess' = [sess EXCEPT ![s].pc = "done"]
    /\ UNCHANGED <<menuPc, join_ticket, ticket, poem_doc, docs, writes, blobs, stdout, events, logVars>>

\* AfterRead without the break on success
AfterReadNoBreak(content, i) == IF i < Retries THEN "sleep" ELSE "emit"

\* AfterRead with the range of the loop one too long (0..=3)
AfterReadInclusive(content, i) == IF i <= Retries /\ ~content.ok THEN "sleep" ELSE "emit"

\* for _ in 0..3 { if message_content.is_ok() { break; } sleep(1s) ...
\* the loop head after a read that left i turns done: the position it leads to
AfterRead(content, i) == IF i < Retries /\ ~content.ok THEN "sleep" ELSE "emit"

\* what a read for event id adds to its history, with the sleep it leads to
Fetched(id, to) ==
    [events EXCEPT ![id].fetches = @ + 1,
                   ![id].waited = IF to = "sleep" THEN @ + BackoffSecs ELSE @]

\* let mut message_content = blobs.read_to_bytes(entry.content_hash()).await
\* and the first turn of the loop head
SessRead(s) ==
    LET id == sess[s].cur
        content == read_to_bytes(events[id].entry.hash)
        to == AfterRead(content, 0)
    IN /\ ~Halted
       /\ sess[s].pc = "read"
       /\ sess' = [sess EXCEPT ![s].pc = to, ![s].i = 0, ![s].message_content = content]
       /\ events' = Fetched(id, to)
       /\ UNCHANGED <<menuPc, join_ticket, ticket, poem_doc, docs, writes, blobs, stdout, logVars>>

\* the sleep's timer fires:
\* ... message_content = blobs.read_to_bytes(entry.content_hash()).await }
\* and the next turn of the loop head
SessWake(s) ==
    LET id == sess[s].cur
        content == read_to_bytes(events[id].entry.hash)
        to == AfterRead(content, sess[s].i + 1)
    IN /\ ~Halted
       /\ sess[s].pc = "sleep"
       /\ sess' = [sess EXCEPT ![s].pc = to, ![s].i = @ + 1, ![s].message_content = content]
       /\ events' = Fetched(id, to)
       /\ UNCHANGED <<menuPc, join_ticket, ticket, poem_doc, docs, writes, blobs, stdout, logVars>>

\* if let Ok(content) = message_content
\*     { println!("{}: {}", from.fmt_short(), String::from_utf8(content.into()).unwrap()) }
SessEmit(s) ==
    LET id == sess[s].cur
        content == sess[s].message_content
    IN /\ ~Halted
       /\ sess[s].pc = "emit"
       /\ IF content.ok
          THEN IF utf8_valid(content.bytes)
               THEN /\ stdout' = Append(stdout, [kind |-> "note",
                                                 who |-> fmt_short(events[id].from),
                                                 text |-> utf8_decode(content.bytes)])
                    /\ events' = [events EXCEPT ![id].notes = @ + 1,
                                                ![id].line = Len(stdout) + 1,
                                                ![id].result = "ok"]
                    /\ sess' = [sess EXCEPT ![s].pc = "next"]
               ELSE /\ events' = [events EXCEPT ![id].result = "panic"]
                    /\ sess' = [sess EXCEPT ![s].pc = "panicked"]
                    /\ UNCHANGED stdout
          ELSE /\ events' = [events EXCEPT ![id].result = "failed"]
               /\ sess' = [sess EXCEPT ![s].pc = "next"]
               /\ UNCHANGED stdout
       /\ UNCHANGED <<menuPc, join_ticket, ticket, poem_doc, docs, writes, blobs, logVars>>

SessStep(s) ==
    \/ SessSubscribe(s) \/ SessNextRemote(s) \/ SessNextOther(s) \/ SessNextClosed(s)
    \/ SessRead(s) \/ SessWake(s) \/ SessEmit(s)

----------------------------------------------------------------------------
(* Environment: the document engine's live events and the blob store *)

Deliver(s, kind, from, entry) ==
    /\ ~Halted
    /\ Listening(s)
    /\ Cardinality(Delivered) < MaxEvents
    /\ events' = Append(events, NewEvent(s, kind, from, entry))
    /\ sess' = [sess EXCEPT ![s].sub = Append(@, Len(events) + 1)]
    /\ UNCHANGED <<menuPc, join_ticket, ticket, poem_doc, docs, writes, blobs, stdout, logVars>>

\* a peer sends an entry of the document
DeliverRemote(s) ==
    \E from \in Peers, entry \in RemoteEntries : Deliver(s, "InsertRemote", from, entry)

\* a membership or sync event
DeliverOther(s) ==
    \E kind \in OtherKinds : Deliver(s, kind, NoId, NoEntry)

\* the stream of the subscription ends
CloseSub(s) ==
    /\ ~Halted
    /\ Listening(s)
    /\ sess' = [sess EXCEPT ![s].closed = TRUE]
    /\ UNCHANGED <<menuPc, join_ticket, ticket, poem_doc, docs, writes, blobs, stdout, events, logVars>>

\* the content of a remote entry finishes downloading
BlobArrive ==
    /\ ~Halted
    /\ \E s \in DOMAIN sess : Running(s)
    /\ \E e \in RemoteEntries :
          /\ e.hash \notin blobs
          /\ blobs' = blobs \cup {e.hash}
    /\ UNCHANGED <<menuPc, join_ticket, ticket, poem_doc, docs, writes, stdout, sess, events, logVars>>

----------------------------------------------------------------------------
(* Specifications *)

Next ==
    \/ MenuCreate \/ MenuJoin \/ MenuInvalid
    \/ CreateShare \/ CreatePrint \/ CreateImport \/ CreateSetTicket \/ CreateSpawn \/ CreateLine
    \/ JoinPrompt \/ JoinParse \/ JoinImport \/ JoinSpawn \/ JoinLine
    \/ \E s \in DOMAIN sess : SessSubscribe(s)
    \/ \E s \in DOMAIN sess : SessNextRemote(s)
    \/ \E s \in DOMAIN sess : SessNextOther(s)
    \/ \E s \in DOMAIN sess : SessNextClosed(s)
    \/ \E s \in DOMAIN sess : SessRead(s)
    \/ \E s \in DOMAIN sess : SessWake(s)
    \/ \E s \in DOMAIN sess : SessEmit(s)
    \/ \E s \in DOMAIN sess : DeliverRemote(s)
    \/ \E s \in DOMAIN sess : DeliverOther(s)
    \/ \E s \in DOMAIN sess : CloseSub(s)
    \/ BlobArrive

Spec == Init /\ [][Next]_vars

\* steps of the menu task that wait for nothing outside the process
MenuInternal ==
    \/ CreateShare \/ CreatePrint \/ CreateImport \/ CreateSetTicket \/ CreateSpawn
    \/ JoinParse \/ JoinImport \/ JoinSpawn

\* The runtime schedules every task that is ready, and timers fire.
FairSpec ==
    /\ Spec
    /\ WF_vars(MenuInternal)
    /\ \A s \in 1..MaxSessions : WF_vars(s \in DOMAIN sess /\ SessStep(s))

----------------------------------------------------------------------------
(* Properties *)

Remote(id) == events[id].kind = "InsertRemote"
TicketWrites == {n \in DOMAIN writes : writes[n].key = PoemTicketKey}
TicketPrints == {n \in DOMAIN stdout : stdout[n].kind = "ticket"}
InCreate == menuPc \in {"create_share", "create_print", "create_import", "create_set",
                        "create_spawn", "create_lines"}
TicketTyped == menuPc \in {"join_parse", "join_import", "join_spawn", "join_lines", "panicked"}

\* The node never holds more than one session: the handler that spawned it
\* never returns to menu_loop.
AtMostOneSession == Len(sess) <= 1

\* C1 (as claimed): a session loop that has stopped has had its subscription
\* closed; no delivered event of any kind stops it.
C1_StopsOnlyWhenClosed ==
    \A s \in DOMAIN sess : ~Running(s) => sess[s].closed

\* C2 (as claimed): no entry is fetched more than 3 times.
C2_AtMostThreeAttempts ==
    \A id \in DOMAIN events : events[id].fetches <= 3

\* C2 (amended): an entry is fetched at most 4 times, the first read and 3
\* retries; each retry follows one wait of 1 second, so at most 3 seconds are
\* waited, there are no more waits than attempts made and two attempts are
\* never made without a wait between them.
C2_AtMostFourAttempts ==
    \A id \in DOMAIN events :
        /\ events[id].fetches <= 4
        /\ events[id].waited <= 3
        /\ events[id].waited <= events[id].fetches * BackoffSecs
        /\ events[id].fetches * BackoffSecs <= events[id].waited + BackoffSecs

\* C2 witness: an entry whose four reads all failed.
C2_Exhausted ==
    \E id \in DOMAIN events : events[id].fetches = 4 /\ events[id].result = "failed"

\* C3 (as claimed): an entry whose reads all failed has a FetchFailed
\* diagnostic in the output and no notification.
C3_FetchFailedDiagnostic ==
    \A id \in DOMAIN events :
        events[id].result = "failed" =>
            /\ \E n \in DOMAIN stdout : stdout[n].kind = "FetchFailed"
            /\ events[id].notes = 0

\* C4 (as claimed): after an entry e1 of a session was dropped, a later remote
\* insert e2 of the same, still open, subscription whose payload is in the
\* store is notified, or the session is still running and gets to it.
C4_LaterEntryProcessed ==
    \A e1, e2 \in DOMAIN events :
        ( /\ e1 < e2
          /\ events[e1].sess = events[e2].sess
          /\ events[e1].result = "failed"
          /\ Remote(e2)
          /\ events[e2].entry.hash \in blobs
          /\ ~sess[events[e2].sess].closed )
        => (events[e2].notes = 1 \/ Running(events[e2].sess))

\* C5 (as claimed): an entry whose payload was read has exactly one
\* notification, which carries the entry's author, its key and its payload.
C5_OneNotificationAuthorKeyPayload ==
    \A id \in DOMAIN events :
        events[id].result \in {"ok", "panic"} =>
            /\ events[id].notes = 1
            /\ LET note == stdout[events[id].line]
               IN /\ note.who = fmt_short(events[id].entry.author)
                  /\ "key" \in DOMAIN note
                  /\ note.key = events[id].entry.key
                  /\ content_hash(utf8_encode(note.text)) = events[id].entry.hash

\* C6: once a ticket string that does not parse has been typed at the join
\* prompt, nothing is imported, no session is spawned, no entry is written,
\* nothing is stored and no event is subscribed to; the handler is at the
\* parse or has panicked there.
C6_MalformedTicketNoActivity ==
    (TicketTyped /\ from_str(join_ticket) = Invalid) =>
        /\ menuPc \in {"join_parse", "panicked"}
        /\ docs = {}
        /\ sess = <<>>
        /\ writes = <<>>
        /\ blobs = {}
        /\ events = <<>>

\* C6 witness: the join handler has panicked on a string that is no ticket.
C6_Rejected ==
    menuPc = "panicked" /\ join_ticket # <<>> /\ from_str(join_ticket) = Invalid

\* C8 (as claimed): once a session has been started, the menu gets back to
\* its command prompt, where a further create or join can be typed.
C8_FurtherCommand ==
    (sess # <<>>) ~> (menuPc = "prompt")

\* C9 (as claimed): once the subscription of a session is closed, no read is
\* made and no wait is started for any of its entries.
C9_NothingStartedAfterClose ==
    [][\A id \in DOMAIN events :
          sess[events[id].sess].closed =>
              /\ events'[id].fetches = events[id].fetches
              /\ events'[id].waited = events[id].waited]_vars

\* C10: in create, the "poem-ticket" entry is written at most once, as the
\* first entry, into the imported document, after the ticket was printed and
\* with the printed string as its payload; the session is spawned only after
\* it, and a user line is written only after the session was spawned.
C10_CreateOrder ==
    InCreate =>
        /\ Cardinality(TicketWrites) <= 1
        /\ Cardinality(TicketPrints) <= 1
        /\ \A n \in TicketWrites :
              /\ n = 1
              /\ writes[n].doc \in docs
              /\ TicketPrints # {}
              /\ \A m \in TicketPrints : stdout[m].text = utf8_decode(writes[n].value)
        /\ (sess # <<>> => TicketWrites = {1})
        /\ (UserLines # {} => sess # <<>>)

\* C10 witness: create has written the ticket entry and then a user line.
C10_LineAfterTicket ==
    menuPc = "create_lines" /\ TicketWrites = {1} /\ UserLines # {}

\* C11: a read is made, a wait is started and a line is printed only for
\* events that are remote inserts: every notification on the output belongs
\* to a remote insert, and the event of an entry written on this node (the
\* ticket entry, a user line) has no read, no wait and no notification.
C11_OnlyRemoteSurfaced ==
    /\ \A id \in DOMAIN events :
          ~Remote(id) =>
              /\ events[id].fetches = 0
              /\ events[id].waited = 0
              /\ events[id].notes = 0
              /\ events[id].result = "none"
    /\ \A n \in DOMAIN stdout :
          stdout[n].kind = "note" =>
              \E id \in DOMAIN events : Remote(id) /\ events[id].line = n
    /\ \A s \in DOMAIN sess :
          sess[s].cur # 0 => Remote(sess[s].cur)

\* C11 witness: the session has taken the event of a line written on this
\* node off its subscription, after it printed a remote entry.
C11_LocalInsertTaken ==
    \E id \in DOMAIN events :
        /\ events[id].kind = "InsertLocal"
        /\ id \notin {sess[events[id].sess].sub[k] : k \in DOMAIN sess[events[id].sess].sub}
        /\ \E n \in DOMAIN stdout : stdout[n].kind = "note"

\* the entry session s has in hand, taken off the stream and not yet decided
InHand(s) == sess[s].cur # 0 /\ events[sess[s].cur].result = "none"

\* C13, in every state: an entry not yet read has no wait; a session sleeps
\* only on a failed read, one wait per read made so far; when the retry loop
\* is left, and for ever after the entry is decided, the waits are the reads
\* minus one.
C13_WaitsAndReads ==
    /\ \A id \in DOMAIN events :
          /\ events[id].fetches = 0 => events[id].waited = 0
          /\ events[id].result # "none" =>
                /\ events[id].fetches >= 1
                /\ events[id].waited = (events[id].fetches - 1) * BackoffSecs
    /\ \A s \in DOMAIN sess :
          InHand(s) =>
              LET e == events[sess[s].cur] IN
              /\ sess[s].pc = "read" => e.fetches = 0
              /\ sess[s].pc = "sleep" =>
                    ~sess[s].message_content.ok /\ e.waited = e.fetches * BackoffSecs
              /\ sess[s].pc = "emit" => e.waited = (e.fetches - 1) * BackoffSecs

\* C13, in every step: a wait is started only by a read that failed; a read
\* is the first of its entry or is made by a session waking from its wait;
\* once a read of an entry has succeeded, or the entry is decided, no read
\* is made and no wait is started for it.
C13_Step ==
    \A id \in DOMAIN events :
        LET s == events[id].sess IN
        /\ events'[id].waited # events[id].waited =>
              /\ events'[id].waited = events[id].waited + BackoffSecs
              /\ events'[id].fetches = events[id].fetches + 1
              /\ ~sess'[s].message_content.ok
        /\ events'[id].fetches # events[id].fetches =>
              /\ events'[id].fetches = events[id].fetches + 1
              /\ events[id].fetches = 0 \/ sess[s].pc = "sleep"
        /\ ( \/ events[id].result # "none"
             \/ sess[s].cur = id /\ sess[s].pc # "read" /\ sess[s].message_content.ok )
           => /\ events'[id].fetches = events[id].fetches
              /\ events'[id].waited = events[id].waited

\* C13: the retry stops at the first success, a wait sits between a failed
\* read and the next read, and the waits of an entry are its reads minus one.
C13_RetryStopsAtSuccess == []C13_WaitsAndReads /\ [][C13_Step]_vars

\* C13 witness: an entry was printed after a retry succeeded.
C13_SucceededOnRetry ==
    \E id \in DOMAIN events : events[id].result = "ok" /\ events[id].fetches >= 2

\* C14 (as claimed): no session task aborts while it handles an entry,
\* whatever the bytes of the payload it read.
C14_NoSessionPanic ==
    \A s \in DOMAIN sess : sess[s].pc # "panicked"

\* C15: of two events delivered to one session, the later is read only after
\* the earlier, a remote insert, was printed or dropped; and when both are
\* printed, their lines are in the order of delivery.
C15_ArrivalOrder ==
    \A e1, e2 \in DOMAIN events :
        (e1 < e2 /\ events[e1].sess = events[e2].sess) =>
            /\ events[e2].fetches > 0 =>
                  Remote(e1) /\ events[e1].result \in {"ok", "failed"}
            /\ (events[e1].notes > 0 /\ events[e2].notes > 0) =>
                  events[e1].line < events[e2].line

\* C15 witness: two remote inserts of one session, both printed.
C15_TwoPrinted ==
    \E e1, e2 \in DOMAIN events :
        /\ e1 < e2
        /\ events[e1].sess = events[e2].sess
        /\ events[e1].notes = 1
        /\ events[e2].notes = 1

\* C16: no user line overwrites another: every line the user entered was
\* written under a key that differs from the key of every earlier line this
\* node wrote to the document.
C16_LineKeysDistinct ==
    \A i, j \in UserLines :
        (i < j /\ writes[i].doc = writes[j].doc /\ writes[i].author = writes[j].author)
            => writes[i].key # writes[j].key

----------------------------------------------------------------------------
(* The replicated document log: LogEntry, merge and list.  Two replicas of *)
(* one document receive every broadcast entry once, each in its own order. *)

\* authors and keys, each in ascending order
LogAuthors == <<"aa", "bb">>
LogKeys == <<"x", "y">>

\* (timestamp, hash) of the writes: two of equal timestamp and a later one
Versions == {<<1, 1>>, <<1, 2>>, <<2, 1>>}

\* LogEntry {author, key, hash, timestamp}
LogEntries ==
    {[author |-> LogAuthors[a], key |-> LogKeys[k], hash |-> v[2], timestamp |-> v[1]] :
        a \in DOMAIN LogAuthors, k \in DOMAIN LogKeys, v \in Versions}

Rank(order, x) == CHOOSE n \in DOMAIN order : order[n] = x

\* identity of an entry is (author, key)
SameSlot(e, f) == e.author = f.author /\ e.key = f.key

\* e is a strictly greater (timestamp, hash) pair than f
Newer(e, f) ==
    \/ e.timestamp > f.timestamp
    \/ e.timestamp = f.timestamp /\ e.hash > f.hash

\* what merge(remote_entry) returns on a replica holding store
outcome(store, e) ==
    IF e \in store THEN "Duplicate"
    ELSE IF \E f \in store : SameSlot(f, e) /\ Newer(f, e) THEN "Superseded"
    ELSE "Applied"

\* merge that resolves by timestamp alone: of two entries of equal timestamp
\* the one merged later stays
merge_timestamp_only(store, e) ==
    IF \E f \in store : SameSlot(f, e) /\ f.timestamp > e.timestamp
    THEN store
    ELSE {f \in store : ~SameSlot(f, e)} \cup {e}

\* merge: last-write-wins per (author, key), ties broken by the larger hash
merge(store, e) ==
    IF outcome(store, e) = "Applied"
    THEN {f \in store : ~SameSlot(f, e)} \cup {e}
    ELSE store

\* the order of list(): by (key, timestamp) ascending, then author and hash
Before(e, f) ==
    LET ke == Rank(LogKeys, e.key)
        kf == Rank(LogKeys, f.key)
        ae == Rank(LogAuthors, e.author)
        af == Rank(LogAuthors, f.author)
    IN \/ ke < kf
       \/ ke = kf /\ e.timestamp < f.timestamp
       \/ ke = kf /\ e.timestamp = f.timestamp /\ ae < af
       \/ ke = kf /\ e.timestamp = f.timestamp /\ ae = af /\ e.hash < f.hash

RECURSIVE Sorted(_)
Sorted(S) ==
    IF S = {} THEN <<>>
    ELSE LET m == CHOOSE e \in S : \A f \in S \ {e} : Before(e, f)
         IN <<m>> \o Sorted(S \ {m})

\* list(): the live entries of a replica, in order
list(store) == Sorted(store)

\* an author's entry is broadcast to every replica
Broadcast(e) ==
    /\ Cardinality(sent) < MaxEntries
    /\ e \notin sent
    /\ sent' = sent \cup {e}
    /\ inbox' = [r \in Replicas |-> inbox[r] \cup {e}]
    /\ UNCHANGED <<progVars, replica, last>>

\* replica r receives entry e and merges it
Receive(r, e) ==
    /\ e \in inbox[r]
    /\ inbox' = [inbox EXCEPT ![r] = @ \ {e}]
    /\ replica' = [replica EXCEPT ![r] = merge(@, e)]
    /\ last' = [last EXCEPT ![r] = e]
    /\ UNCHANGED <<progVars, sent>>

MergeNext ==
    \/ \E e \in LogEntries : Broadcast(e)
    \/ \E r \in Replicas, e \in LogEntries : Receive(r, e)

MergeSpec == Init /\ [][MergeNext]_vars

\* the entries of S that no entry of S supersedes
Winners(S) == {e \in S : \A f \in S : SameSlot(f, e) => ~Newer(f, e)}

Range(q) == {q[n] : n \in DOMAIN q}

\* C12: when two replicas have merged the same set of entries, in whatever
\* orders, their list() outputs are identical and hold for each (author, key)
\* exactly the entry of greatest timestamp, ties broken by the larger hash.
C12_MergeConverges ==
    (\A r \in Replicas : inbox[r] = {}) =>
        /\ list(replica["A"]) = list(replica["B"])
        /\ \A r \in Replicas :
              /\ Range(list(replica[r])) = Winners(sent)
              /\ Len(list(replica[r])) = Cardinality(Winners(sent))

\* C12 witness: both replicas merged all entries, ending with different
\* ones, and among the entries are two of one (author, key) with equal
\* timestamps
C12_DifferentOrdersTie ==
    /\ \A r \in Replicas : inbox[r] = {}
    /\ last["A"] # last["B"]
    /\ \E e, f \in sent : e # f /\ SameSlot(e, f) /\ e.timestamp = f.timestamp

=============================================================================
